---- MODULE Spec2Model ----
(***************************************************************************)
(* Model of the agent runtime of Autonomous-Incident-Management:           *)
(*   - MonitorContext.prepare_context (src/utils/monitor_context.py), the  *)
(*     context compactor, as pure operators applied by the actions of      *)
(*     CompactSpec;                                                        *)
(*   - dispatch_tool and run_agent (src/agent.py), the tool router and the *)
(*     agent loop, as the state machine Spec.                              *)
(***************************************************************************)
EXTENDS Integers, Sequences, FiniteSets, TLC

VARIABLES
    \* ---- compactor (prepare_context)
    c_pc,          \* "ready" | "compacted" | "recompacted" | "repeated"
    c_messages,    \* the history passed to prepare_context
    c_cfg,         \* the MonitorContext configuration
    c_run,         \* the locals of the first call (normalized, forced, trace, selected, out)
    c_out2         \* the output of prepare_context applied to its own output

VARIABLES
    \* ---- agent loop (run_agent)
    pc,                  \* position of run_agent: "request" | "dispatch" | "memory" |
                         \* "result" | "batch" | "final" | "done" | "aborted"
    reg,                 \* the tool-name sets discovered from the five servers
    messages,            \* the stored history
    requests,            \* model requests issued so far
    tool_uses,           \* the tool_use blocks of the current response
    idx,                 \* position of the for loop in tool_uses
    cur,                 \* (result, memory_type, is_error) of the current dispatch
    tool_result_blocks,  \* the tool_result blocks built so far for the response
    dispatches,          \* log: every dispatch_tool call
    calls,               \* log: every backend call_tool made by dispatch_tool
    memory_writes,       \* log: every write_memory call made by the loop
    sent                 \* the messages argument of the latest model request

VARIABLES
    \* ---- helper functions of agent.py and utils/memory_utils.py
    u_pc,          \* "ready" | "returned"
    u_in,          \* the call: the function's name and its arguments
    u_out          \* what the call returned

c_vars == <<c_pc, c_messages, c_cfg, c_run, c_out2>>
a_vars == <<pc, reg, messages, requests, tool_uses, idx, cur, tool_result_blocks,
            dispatches, calls, memory_writes, sent>>
u_vars == <<u_pc, u_in, u_out>>
vars == <<c_vars, a_vars, u_vars>>

\* ======================================================================
\* Bounds of the model
\* ======================================================================
\* longest history handed to prepare_context
MaxLen == 3
\* model requests of one run of the agent loop
MaxRequests == 2

\* ======================================================================
\* Texts
\* ======================================================================
\* A text is [lead, words, trail]: `lead` whitespace characters, then the
\* words separated by single spaces, then `trail` whitespace characters.
\* The vocabulary below is what the inputs are built from; BLOB stands for
\* a run of 900 letters "A".
BLOB == "A*900"

WordLen(w) ==
    CASE w = "must" -> 4
      [] w = "ok" -> 2
      [] w = "ERROR" -> 5
      [] w = "INC-" -> 4
      [] w = "INC-42" -> 6
      [] w = "x" -> 1
      [] w = "y" -> 1
      [] w = BLOB -> 900
      [] w = "Handle" -> 6
      [] w = "incident" -> 8
      [] w = "retry" -> 5
      [] w = "with" -> 4
      [] w = "fix" -> 3
      [] w = "[oops" -> 5
      [] w = "{'a':" -> 5
      [] w = "1}" -> 2
      [] w = "(1," -> 3
      [] w = "2)" -> 2
      [] w = "[1," -> 3
      [] w = "2]" -> 2
      [] w = "[{'role':'user','content':'must'}]" -> 34
      [] OTHER -> 1

Txt(ws) == [lead |-> 0, words |-> ws, trail |-> 0]
Padded(ws) == [lead |-> 1, words |-> ws, trail |-> 1]
EmptyText == Txt(<<>>)

RECURSIVE WordsLen(_)
WordsLen(ws) ==
    IF ws = <<>> THEN 0
    ELSE WordLen(Head(ws)) + (IF Len(ws) > 1 THEN 1 ELSE 0) + WordsLen(Tail(ws))

\* len(text)
TextLen(t) == t.lead + WordsLen(t.words) + t.trail

\* text.strip()
Strip(t) == [lead |-> 0, words |-> t.words, trail |-> 0]

\* text[:n] of a stripped text, as runs <<word, characters kept>>; the space
\* between two words is the run <<" ", 1>>
RECURSIVE TakeChars(_, _)
TakeChars(ws, n) ==
    IF n <= 0 \/ ws = <<>> THEN <<>>
    ELSE LET w == Head(ws)
             l == WordLen(w)
         IN  IF l >= n THEN << <<w, n>> >>
             ELSE IF Len(ws) = 1 THEN << <<w, l>> >>
             ELSE << <<w, l>>, <<" ", 1>> >> \o TakeChars(Tail(ws), n - l - 1)

\* estimate_tokens: max(1, ceil(len(text) / 4))
estimate_tokens(t) ==
    LET n == TextLen(t)
        c == (n + 3) \div 4
    IN  IF c < 1 THEN 1 ELSE c

\* ======================================================================
\* Regular expressions of the compactor, on the vocabulary
\* ======================================================================
\* \b(INFO|DEBUG|TRACE|ERROR|log\.|traceback|stack)\b, re.I
_is_log(t) == \E i \in 1..Len(t.words) : t.words[i] \in {"ERROR"}

\* \b(decide|decision|constraint|requirement|todo|must|never|always|severity|critical|high)\b, re.I
HasDecisionWord(t) == \E i \in 1..Len(t.words) : t.words[i] \in {"must"}

\* \b\d{4}-\d{2}-\d{2}\b|\bINC-[A-Z0-9-]+\b
HasIdentifier(t) == \E i \in 1..Len(t.words) : t.words[i] \in {"INC-42"}

\* "INC-" in text or "severity" in text.lower()
HasIncOrSeverity(t) == \E i \in 1..Len(t.words) : t.words[i] \in {"INC-", "INC-42"}

\* ======================================================================
\* Message content: str | list of blocks | None
\* ======================================================================
NoneContent == [kind |-> "none", text |-> EmptyText, blocks |-> <<>>]
StrContent(t) == [kind |-> "str", text |-> t, blocks |-> <<>>]
ListContent(bs) == [kind |-> "list", text |-> EmptyText, blocks |-> bs]

TextBlock(ws) == [type |-> "text", text |-> Txt(ws)]
ToolUseBlock == [type |-> "tool_use", text |-> EmptyText]
ToolResultBlock(ws) == [type |-> "tool_result", text |-> Txt(ws)]

_is_raw_tool_use_block(b) == b.type = "tool_use"

\* block.get("text", "") of a text block, str(block.get("content", "")) of
\* a tool_result block
_extract_text_from_block(b) == b.text

\* " ".join(p for p in parts if p) over the blocks that are no tool_use
RECURSIVE JoinParts(_)
JoinParts(bs) ==
    IF bs = <<>> THEN <<>>
    ELSE IF _is_raw_tool_use_block(Head(bs)) THEN JoinParts(Tail(bs))
    ELSE _extract_text_from_block(Head(bs)).words \o JoinParts(Tail(bs))

extract_text(c) ==
    CASE c.kind = "none" -> EmptyText
      [] c.kind = "str" -> c.text
      [] OTHER -> Txt(JoinParts(c.blocks))

\* ======================================================================
\* Sequence helpers
\* ======================================================================
Range(s) == {s[i] : i \in 1..Len(s)}

\* s[-k:] of Python for k >= 0: the last k elements, all of s when k = 0
\* (s[-0:] is s[0:]) or when k >= len(s)
LastK(s, k) ==
    IF k = 0 \/ k >= Len(s) THEN s ELSE SubSeq(s, Len(s) - k + 1, Len(s))

\* the first occurrence of each element of s not in seen, in order
RECURSIVE FirstOccurrences(_, _)
FirstOccurrences(s, seen) ==
    IF s = <<>> THEN <<>>
    ELSE IF Head(s) \in seen THEN FirstOccurrences(Tail(s), seen)
    ELSE <<Head(s)>> \o FirstOccurrences(Tail(s), seen \cup {Head(s)})

\* stable insertion of the pair x = [key, val] into s, sorted by ascending key
RECURSIVE InsertAsc(_, _)
InsertAsc(x, s) ==
    IF s = <<>> THEN <<x>>
    ELSE IF x.key < Head(s).key THEN <<x>> \o s
    ELSE <<Head(s)>> \o InsertAsc(x, Tail(s))

\* list.sort(key=...) on [key, val] pairs: stable, ascending
RECURSIVE SortAsc(_)
SortAsc(s) ==
    IF s = <<>> THEN <<>>
    ELSE InsertAsc(s[Len(s)], SortAsc(SubSeq(s, 1, Len(s) - 1)))

Vals(s) == [i \in 1..Len(s) |-> s[i].val]

\* ======================================================================
\* MonitorContext.prepare_context
\* ======================================================================
\* defaults of MonitorContext.__init__
DefaultMinLength == 3
\* max_context_tokens of a MonitorContext built with its defaults
DefaultMaxContextTokens == 3000
\* length of the content prefix in the dedupe key
PrefixLen == 900

UserRole == "user"
AssistantRole == "assistant"
SystemRole == "system"

\* the text of a message after extract_text and strip
NormText(m) == Strip(extract_text(m.content))

\* a content list that holds tool_use blocks only (a pure invocation)
PureToolUse(c) ==
    /\ c.kind = "list"
    /\ \E i \in 1..Len(c.blocks) : _is_raw_tool_use_block(c.blocks[i])
    /\ \A i \in 1..Len(c.blocks) : _is_raw_tool_use_block(c.blocks[i])

\* faulty variant: log-like messages are not filtered out
KeepsLogs(m, cfg) ==
    LET text == NormText(m)
    IN  /\ ~PureToolUse(m.content)
        /\ TextLen(text) > 0
        /\ TextLen(text) >= cfg.min_length

\* the filters of the normalisation loop: what is appended to `normalized`
Keeps(m, cfg) ==
    LET text == NormText(m)
    IN  /\ ~PureToolUse(m.content)
        /\ TextLen(text) > 0
        /\ TextLen(text) >= cfg.min_length
        /\ ~(cfg.drop_logs /\ _is_log(text) /\ ~HasIncOrSeverity(text))

Normalize(msgs, cfg) ==
    LET kept == SelectSeq(msgs, LAMBDA m : Keeps(m, cfg))
    IN  [i \in 1..Len(kept) |-> [role |-> kept[i].role, content |-> NormText(kept[i])]]

\* _score, in hundredths
_score(m, cfg) ==
    LET base == CASE m.role = UserRole -> 100
                  [] m.role = AssistantRole -> 40
                  [] m.role = SystemRole -> 60
                  [] OTHER -> 0
        sc == base
              + (IF HasDecisionWord(m.content) THEN 50 ELSE 0)
              + (IF HasIdentifier(m.content) THEN 25 ELSE 0)
              - (IF cfg.drop_logs /\ _is_log(m.content) THEN 60 ELSE 0)
    IN  IF sc < 0 THEN 0 ELSE sc

\* forced_set: the (role, content) of the last keep_last_user user messages
\* and the last keep_last_assistant assistant messages
ForcedSet(normalized, cfg) ==
    LET last_users == LastK(SelectSeq(normalized, LAMBDA m : m.role = UserRole),
                            cfg.keep_last_user)
        last_assist == LastK(SelectSeq(normalized, LAMBDA m : m.role = AssistantRole),
                             cfg.keep_last_assistant)
    IN  Range(last_users \o last_assist)

\* candidates: the messages outside forced_set with their scores, sorted by
\* descending score (stable)
Candidates(normalized, forced, cfg) ==
    LET rest == SelectSeq(normalized, LAMBDA m : m \notin forced)
    IN  SortAsc([i \in 1..Len(rest) |->
                    [key |-> 0 - _score(rest[i], cfg), val |-> rest[i]]])

\* faulty variant: try_add without the budget check
TryAddAlways(acc, m) ==
    LET cost == estimate_tokens(m.content)
    IN  [budget |-> acc.budget - cost,
         selected |-> Append(acc.selected, m),
         trace |-> Append(acc.trace, [msg |-> m, cost |-> cost, before |-> acc.budget,
                                      after |-> acc.budget - cost, added |-> TRUE])]
\* try_add: acc = [budget, selected, trace]; the trace records every call
TryAdd(acc, m) ==
    LET cost == estimate_tokens(m.content)
    IN  IF acc.budget - cost < 0
        THEN [acc EXCEPT !.trace = Append(@, [msg |-> m, cost |-> cost,
                  before |-> acc.budget, after |-> acc.budget, added |-> FALSE])]
        ELSE [budget |-> acc.budget - cost,
              selected |-> Append(acc.selected, m),
              trace |-> Append(acc.trace, [msg |-> m, cost |-> cost,
                  before |-> acc.budget, after |-> acc.budget - cost, added |-> TRUE])]

\* for m in forced_in_order: try_add(m)
RECURSIVE PackForced(_, _)
PackForced(acc, ms) ==
    IF ms = <<>> THEN acc ELSE PackForced(TryAdd(acc, Head(ms)), Tail(ms))

\* faulty variant: the candidate loop stops at the first candidate that does not fit
RECURSIVE PackCandidatesBreak(_, _)
PackCandidatesBreak(acc, cands) ==
    IF cands = <<>> THEN acc
    ELSE IF 0 - Head(cands).key <= 0 THEN PackCandidatesBreak(acc, Tail(cands))
    ELSE LET nxt == TryAdd(acc, Head(cands).val)
         IN  IF nxt.budget = acc.budget THEN nxt ELSE PackCandidatesBreak(nxt, Tail(cands))

\* for m, sc in candidates: skip sc <= 0, else try_add(m) and continue
RECURSIVE PackCandidates(_, _)
PackCandidates(acc, cands) ==
    IF cands = <<>> THEN acc
    ELSE IF 0 - Head(cands).key <= 0 THEN PackCandidates(acc, Tail(cands))
    ELSE PackCandidates(TryAdd(acc, Head(cands).val), Tail(cands))

\* index[(role, content)]: the dict comprehension keeps the last position
IndexOf(normalized, m) ==
    CHOOSE i \in 1..Len(normalized) :
        /\ normalized[i] = m
        /\ \A j \in (i + 1)..Len(normalized) : normalized[j] # m

\* faulty variant: the sort in descending order of index
SortSelectedDesc(selected, normalized) ==
    Vals(SortAsc([i \in 1..Len(selected) |->
                     [key |-> 0 - IndexOf(normalized, selected[i]), val |-> selected[i]]]))

\* faulty variant: no re-sort: the selection order is emitted
SortSelectedNone(selected, normalized) == selected

\* selected.sort(key=index)
SortSelected(selected, normalized) ==
    Vals(SortAsc([i \in 1..Len(selected) |->
                     [key |-> IndexOf(normalized, selected[i]), val |-> selected[i]]]))

\* the dedupe key (role, content[:900])
Key(m) == <<m.role, TakeChars(m.content.words, PrefixLen)>>

\* faulty variant: dedupe on the whole content instead of its prefix
DedupeFull(s, seen) == FirstOccurrences(s, seen)

\* final dedupe: the first message of each key
RECURSIVE Dedupe(_, _)
Dedupe(s, seen) ==
    IF s = <<>> THEN <<>>
    ELSE IF Key(Head(s)) \in seen THEN Dedupe(Tail(s), seen)
    ELSE <<Head(s)>> \o Dedupe(Tail(s), seen \cup {Key(Head(s))})

NoRun == [normalized |-> <<>>, forced |-> {}, forced_in_order |-> <<>>,
          candidates |-> <<>>, trace |-> <<>>, selected |-> <<>>, out |-> <<>>]

\* prepare_context on a list of messages: its locals and its return value
prepare_context(msgs, cfg) ==
    LET normalized == Normalize(msgs, cfg)
        forced == ForcedSet(normalized, cfg)
        candidates == Candidates(normalized, forced, cfg)
        forced_in_order ==
            FirstOccurrences(SelectSeq(normalized, LAMBDA m : m \in forced), {})
        acc0 == [budget |-> cfg.max_context_tokens, selected |-> <<>>, trace |-> <<>>]
        acc1 == PackForced(acc0, forced_in_order)
        acc2 == PackCandidates(acc1, candidates)
        selected == SortSelected(acc2.selected, normalized)
    IN  IF normalized = <<>> THEN NoRun
        ELSE [normalized |-> normalized, forced |-> forced,
              forced_in_order |-> forced_in_order, candidates |-> candidates,
              trace |-> acc2.trace, selected |-> selected,
              out |-> Dedupe(selected, {})]

\* the returned list, passed again as a history
AsMessages(out) ==
    [i \in 1..Len(out) |-> [role |-> out[i].role, content |-> StrContent(out[i].content)]]

\* ======================================================================
\* Tool registry and router (dispatch_tool)
\* ======================================================================
MAX_RESULT_CHARS == 8000
MAX_MESSAGES == 30

\* Python's None
None == "None"

\* what list_tools returned, per server: the sets the router tests
BaseReg ==
    [incident |-> {"get_latest_incident"},
     memory |-> {"write_memory", "recall_memory"},
     code_index |-> {"search_code"},
     editor |-> {"read_file"},
     shell |-> {"run_shell"}]

\* the tool name "probe" is published by no server, by one, or by several
Registrations ==
    { BaseReg,
      [BaseReg EXCEPT !.shell = @ \cup {"probe"}],
      [BaseReg EXCEPT !.memory = @ \cup {"probe"}, !.editor = @ \cup {"probe"}],
      [BaseReg EXCEPT !.incident = @ \cup {"probe"}, !.memory = @ \cup {"probe"},
                      !.code_index = @ \cup {"probe"}] }

Registered(r) == r.incident \cup r.memory \cup r.code_index \cup r.editor \cup r.shell

\* faulty variant: the memory domain is tagged with a memory classification
RouteMemoryTagged(name, r) ==
    IF name \in r.incident THEN [domain |-> "incident", memory_type |-> "incident"]
    ELSE IF name \in r.memory THEN [domain |-> "memory", memory_type |-> "action"]
    ELSE IF name \in r.code_index THEN [domain |-> "code_index", memory_type |-> None]
    ELSE IF name \in r.editor THEN [domain |-> "editor", memory_type |-> None]
    ELSE IF name \in r.shell THEN [domain |-> "shell", memory_type |-> None]
    ELSE [domain |-> "unknown", memory_type |-> None]

\* faulty variant: the shell branch is missing
RouteNoShell(name, r) ==
    IF name \in r.incident THEN [domain |-> "incident", memory_type |-> "incident"]
    ELSE IF name \in r.memory THEN [domain |-> "memory", memory_type |-> None]
    ELSE IF name \in r.code_index THEN [domain |-> "code_index", memory_type |-> None]
    ELSE IF name \in r.editor THEN [domain |-> "editor", memory_type |-> None]
    ELSE [domain |-> "unknown", memory_type |-> None]

\* faulty variant: a name no server registered falls through to the shell
RouteDefaultShell(name, r) ==
    IF name \in r.incident THEN [domain |-> "incident", memory_type |-> "incident"]
    ELSE IF name \in r.memory THEN [domain |-> "memory", memory_type |-> None]
    ELSE IF name \in r.code_index THEN [domain |-> "code_index", memory_type |-> None]
    ELSE IF name \in r.editor THEN [domain |-> "editor", memory_type |-> None]
    ELSE [domain |-> "shell", memory_type |-> None]

\* the chain of membership tests of dispatch_tool: the first domain whose
\* set holds the name, with the memory_type passed to safe_call
Route(name, r) ==
    IF name \in r.incident THEN [domain |-> "incident", memory_type |-> "incident"]
    ELSE IF name \in r.memory THEN [domain |-> "memory", memory_type |-> None]
    ELSE IF name \in r.code_index THEN [domain |-> "code_index", memory_type |-> None]
    ELSE IF name \in r.editor THEN [domain |-> "editor", memory_type |-> None]
    ELSE IF name \in r.shell THEN [domain |-> "shell", memory_type |-> None]
    ELSE [domain |-> "unknown", memory_type |-> None]

\* length of the error texts built by dispatch_tool
ErrorMsgLen == 80

\* faulty variant: the error path returns the domain's memory_type
SafeCallKeepsType(domain, memory_type, raised, len) ==
    IF raised
    THEN [result |-> [kind |-> "tool_failed", len |-> ErrorMsgLen],
          memory_type |-> memory_type, is_error |-> TRUE]
    ELSE [result |-> [kind |-> "value", len |-> len],
          memory_type |-> memory_type, is_error |-> FALSE]

\* faulty variant: a large result is tagged as an action
SafeCallTagsLargeResults(domain, memory_type, raised, len) ==
    IF raised
    THEN [result |-> [kind |-> "tool_failed", len |-> ErrorMsgLen],
          memory_type |-> None, is_error |-> TRUE]
    ELSE [result |-> [kind |-> "value", len |-> len],
          memory_type |-> (IF len > MAX_RESULT_CHARS THEN "action" ELSE memory_type),
          is_error |-> FALSE]

\* safe_call: client.call_tool returned a result of `len` characters, or raised
safe_call(domain, memory_type, raised, len) ==
    IF raised
    THEN [result |-> [kind |-> "tool_failed", len |-> ErrorMsgLen],
          memory_type |-> None, is_error |-> TRUE]
    ELSE [result |-> [kind |-> "value", len |-> len],
          memory_type |-> memory_type, is_error |-> FALSE]

\* dispatch_tool: (result, memory_type, is_error), with the backend invoked
dispatch_tool(name, r, raised, len) ==
    LET rt == Route(name, r)
    IN  IF rt.domain = "unknown"
        THEN [result |-> [kind |-> "unknown_tool", len |-> ErrorMsgLen],
              memory_type |-> None, is_error |-> TRUE, backend |-> "none"]
        ELSE LET sc == safe_call(rt.domain, rt.memory_type, raised, len)
             IN  [result |-> sc.result, memory_type |-> sc.memory_type,
                  is_error |-> sc.is_error, backend |-> rt.domain]

\* truncate_result: the characters kept, the total, and whether the marker
\* was appended
truncate_result(result) ==
    IF result.len <= MAX_RESULT_CHARS
    THEN [kind |-> result.kind, shown |-> result.len, total |-> result.len,
          truncated |-> FALSE]
    ELSE [kind |-> result.kind, shown |-> MAX_RESULT_CHARS, total |-> result.len,
          truncated |-> TRUE]

\* faulty variant: the window keeps the most recent messages only
PruneKeepsTail(msgs, max_messages) ==
    IF Len(msgs) <= max_messages THEN msgs
    ELSE LastK(msgs, max_messages)

\* prune_messages
prune_messages(msgs, max_messages) ==
    IF Len(msgs) <= max_messages THEN msgs
    ELSE <<msgs[1]>> \o LastK(msgs, max_messages - 1)

\* ======================================================================
\* Agent loop (run_agent)
\* ======================================================================
NoContent == [kind |-> "none", shown |-> 0, total |-> 0, truncated |-> FALSE]
Block(type, id, name, content, is_error) ==
    [type |-> type, id |-> id, name |-> name, content |-> content, is_error |-> is_error]
Text(tag) == Block("text", 0, tag, NoContent, FALSE)
ToolUse(name) == Block("tool_use", 0, name, NoContent, FALSE)

\* faulty variant: every tool_result block carries the id of the first tool call
ToolResultStaleId(tool_block, r) ==
    Block("tool_result", tool_uses[1].id, "", truncate_result(r.result), r.is_error)

\* the tool_result block built for a tool call
ToolResult(tool_block, r) ==
    Block("tool_result", tool_block.id, "", truncate_result(r.result), r.is_error)

\* the two user messages the history starts with
InitialMessages ==
    << [role |-> UserRole, content |-> <<Text("task")>>],
       [role |-> UserRole, content |-> <<Text("instruction")>>] >>

\* what the model may answer: content blocks, text and tool_use
Responses ==
    { <<Text("final")>>,
      <<>>,
      <<ToolUse("get_latest_incident")>>,
      <<Text("plan"), ToolUse("probe"), ToolUse("no_such_tool")>>,
      <<ToolUse("recall_memory"), ToolUse("get_latest_incident")>>,
      <<ToolUse("no_such_tool"), ToolUse("search_code")>> }

\* lengths of str(result) of a successful tool call
ResultLens == {120, 50000}

\* the API gives every tool_use block of a response its own id
WithIds(content, req) ==
    [k \in 1..Len(content) |->
        IF content[k].type = "tool_use"
        THEN [content[k] EXCEPT !.id = 10 * req + k] ELSE content[k]]

NoCur == [result |-> [kind |-> "none", len |-> 0], memory_type |-> None,
          is_error |-> FALSE, backend |-> "none"]

\* messages=messages: the stored history is passed as it is
RequestMessages(msgs) == msgs

UtilIdle ==
    /\ u_pc = "idle"
    /\ u_in = [fn |-> "none"]
    /\ u_out = <<>>

CompactIdle ==
    /\ c_pc = "idle"
    /\ c_messages = <<>>
    /\ c_cfg = [max_context_tokens |-> 0, keep_last_user |-> 0,
                keep_last_assistant |-> 0, min_length |-> 0, drop_logs |-> FALSE]
    /\ c_run = NoRun
    /\ c_out2 = <<>>

Init ==
    /\ CompactIdle
    /\ UtilIdle
    /\ pc = "request"
    /\ reg \in Registrations
    /\ messages = InitialMessages
    /\ requests = 0
    /\ tool_uses = <<>>
    /\ idx = 0
    /\ cur = NoCur
    /\ tool_result_blocks = <<>>
    /\ dispatches = <<>>
    /\ calls = <<>>
    /\ memory_writes = <<>>
    /\ sent = <<>>

\* claude.messages.create returns: the response is appended as an assistant
\* message and its tool_use blocks are extracted
ModelCall(resps, max_requests) ==
    /\ pc = "request"
    /\ requests < max_requests
    /\ sent' = RequestMessages(messages)
    /\ \E resp \in resps :
          LET content == WithIds(resp, requests + 1)
              uses == SelectSeq(content, LAMBDA b : b.type = "tool_use")
          IN  /\ messages' = Append(messages, [role |-> AssistantRole, content |-> content])
              /\ tool_uses' = uses
              /\ IF uses # <<>>
                 THEN /\ pc' = "dispatch"
                      /\ idx' = 1
                      /\ tool_result_blocks' = <<>>
                 ELSE /\ pc' = "final"
                      /\ UNCHANGED <<idx, tool_result_blocks>>
    /\ requests' = requests + 1
    /\ UNCHANGED <<reg, cur, dispatches, calls, memory_writes, c_vars, u_vars>>

ModelRequest == ModelCall(Responses, MaxRequests)

\* claude.messages.create raises: nothing in run_agent catches it
ModelCallRaises(max_requests) ==
    /\ pc = "request"
    /\ requests < max_requests
    /\ sent' = RequestMessages(messages)
    /\ requests' = requests + 1
    /\ pc' = "aborted"
    /\ UNCHANGED <<reg, messages, tool_uses, idx, cur, tool_result_blocks,
                   dispatches, calls, memory_writes, c_vars, u_vars>>

ModelRequestRaises == ModelCallRaises(MaxRequests)

\* result, memory_type, is_error = await dispatch_tool(...)
DispatchTool ==
    /\ pc = "dispatch"
    /\ \E raised \in BOOLEAN, len \in ResultLens :
          LET tb == tool_uses[idx]
              r == dispatch_tool(tb.name, reg, raised, len)
          IN  /\ cur' = r
              /\ dispatches' = Append(dispatches,
                     [id |-> tb.id, name |-> tb.name, backend |-> r.backend,
                      raised |-> (raised /\ r.backend # "none"), ret |-> r])
              /\ calls' = IF r.backend = "none" THEN calls
                          ELSE Append(calls, [id |-> tb.id, name |-> tb.name,
                                              backend |-> r.backend])
              /\ pc' = IF r.memory_type # None /\ ~r.is_error THEN "memory" ELSE "result"
    /\ UNCHANGED <<reg, messages, requests, tool_uses, idx, tool_result_blocks,
                   memory_writes, sent, c_vars, u_vars>>

\* memory.call_tool("write_memory", ...) inside try/except: it stores the
\* record or raises, and the loop goes on either way
WriteMemory ==
    /\ pc = "memory"
    /\ \E stored \in BOOLEAN :
          memory_writes' = Append(memory_writes,
              [id |-> tool_uses[idx].id, memory_type |-> cur.memory_type,
               tool |-> tool_uses[idx].name, stored |-> stored])
    /\ pc' = "result"
    /\ UNCHANGED <<reg, messages, requests, tool_uses, idx, cur, tool_result_blocks,
                   dispatches, calls, sent, c_vars, u_vars>>

\* faulty variant: after the last tool call the loop goes back to the model
\* without appending the batch of results
BuildResultSkipsBatch ==
    /\ pc = "result"
    /\ tool_result_blocks' = Append(tool_result_blocks, ToolResult(tool_uses[idx], cur))
    /\ IF idx < Len(tool_uses)
       THEN /\ idx' = idx + 1
            /\ pc' = "dispatch"
       ELSE /\ idx' = idx
            /\ pc' = "request"
    /\ UNCHANGED <<reg, messages, requests, tool_uses, cur, dispatches, calls,
                   memory_writes, sent, c_vars, u_vars>>

\* the tool_result block is built and appended; the for loop moves on
BuildResult ==
    /\ pc = "result"
    /\ tool_result_blocks' = Append(tool_result_blocks, ToolResult(tool_uses[idx], cur))
    /\ IF idx < Len(tool_uses)
       THEN /\ idx' = idx + 1
            /\ pc' = "dispatch"
       ELSE /\ idx' = idx
            /\ pc' = "batch"
    /\ UNCHANGED <<reg, messages, requests, tool_uses, cur, dispatches, calls,
                   memory_writes, sent, c_vars, u_vars>>

\* the batch is appended as one user message, the history is pruned, and
\* the loop continues with the next model request
AppendBatch ==
    /\ pc = "batch"
    /\ messages' = prune_messages(
           Append(messages, [role |-> UserRole, content |-> tool_result_blocks]),
           MAX_MESSAGES)
    /\ pc' = "request"
    /\ UNCHANGED <<reg, requests, tool_uses, idx, cur, tool_result_blocks,
                   dispatches, calls, memory_writes, sent, c_vars, u_vars>>

\* faulty variant: the loop continues after the reflection instead of breaking
FinalResponseContinues ==
    /\ pc = "final"
    /\ \E stored \in BOOLEAN :
          /\ memory_writes' = Append(memory_writes,
                 [id |-> 0, memory_type |-> "reflection", tool |-> "", stored |-> stored])
          /\ pc' = IF stored THEN "request" ELSE "aborted"
    /\ UNCHANGED <<reg, messages, requests, tool_uses, idx, cur, tool_result_blocks,
                   dispatches, calls, sent, c_vars, u_vars>>

\* no tool_use in the response: the reflection is written (not guarded by a
\* try) and the loop breaks
FinalResponse ==
    /\ pc = "final"
    /\ \E stored \in BOOLEAN :
          /\ memory_writes' = Append(memory_writes,
                 [id |-> 0, memory_type |-> "reflection", tool |-> "", stored |-> stored])
          /\ pc' = IF stored THEN "done" ELSE "aborted"
    /\ UNCHANGED <<reg, messages, requests, tool_uses, idx, cur, tool_result_blocks,
                   dispatches, calls, sent, c_vars, u_vars>>

Next ==
    \/ ModelRequest
    \/ ModelRequestRaises
    \/ DispatchTool
    \/ WriteMemory
    \/ BuildResult
    \/ AppendBatch
    \/ FinalResponse

Spec == Init /\ [][Next]_vars

\* ----------------------------------------------------------------------
\* A run in which the model keeps asking for the same tool
\* ----------------------------------------------------------------------
\* model requests of one such run
MaxRetryRequests == 4

\* the model asks for the latest incident again, or gives its final answer
RetryResponses ==
    { <<ToolUse("get_latest_incident")>>,
      <<Text("final")>> }

RetryRequest == ModelCall(RetryResponses, MaxRetryRequests)
RetryRequestRaises == ModelCallRaises(MaxRetryRequests)

RetryNext ==
    \/ RetryRequest
    \/ RetryRequestRaises
    \/ DispatchTool
    \/ WriteMemory
    \/ BuildResult
    \/ AppendBatch
    \/ FinalResponse

RetrySpec == Init /\ [][RetryNext]_vars

\* ----------------------------------------------------------------------
\* A long run: one tool call per response until the window is full
\* ----------------------------------------------------------------------
\* model requests of one long run
MaxLongRequests == 17

\* the model recalls memory once more, or gives its final answer; its first
\* response may ask for the latest incident instead
LongResponses ==
    { <<ToolUse("recall_memory")>>,
      <<Text("final")>> }

LongRequest ==
    ModelCall(IF requests = 0 THEN LongResponses \cup RetryResponses ELSE LongResponses,
              MaxLongRequests)
LongRequestRaises == ModelCallRaises(MaxLongRequests)

\* after the second cycle the backends answer, with short results
LongDispatch ==
    /\ DispatchTool
    /\ requests > 2 => (~cur'.is_error /\ cur'.result.len = 120)

LongNext ==
    \/ LongRequest
    \/ LongRequestRaises
    \/ LongDispatch
    \/ WriteMemory
    \/ BuildResult
    \/ AppendBatch
    \/ FinalResponse

LongSpec == Init /\ [][LongNext]_vars

AgentIdle ==
    /\ pc = "idle"
    /\ reg = BaseReg
    /\ messages = <<>>
    /\ requests = 0
    /\ tool_uses = <<>>
    /\ idx = 0
    /\ cur = NoCur
    /\ tool_result_blocks = <<>>
    /\ dispatches = <<>>
    /\ calls = <<>>
    /\ memory_writes = <<>>
    /\ sent = <<>>

\* ----------------------------------------------------------------------
\* prepare_context on a top-level string
\* ----------------------------------------------------------------------
\* text.startswith("[") or text.startswith("(") or text.startswith("{")
StartsWithBracket(t) ==
    /\ t.words # <<>>
    /\ Head(t.words) \in {"[oops", "{'a':", "(1,", "[1,", "[{'role':'user','content':'must'}]"}

\* _try_parse_serialized_messages of a string s: s.text is the string and
\* s.loads what json.loads / ast.literal_eval make of it; the list parsed,
\* or None
_try_parse_serialized_messages(s) ==
    IF ~StartsWithBracket(Strip(s.text)) THEN None
    ELSE IF s.loads.kind = "list" THEN s.loads.items
    ELSE None

\* an item of a parsed list: a dict (a message) or another value
DictItem(m) == [is_dict |-> TRUE, value |-> m]
OtherItem == [is_dict |-> FALSE, value |-> [role |-> "", content |-> NoneContent]]

\* prepare_context(messages) for a string: the recovery of the list, then
\* the normalisation loop, whose m.get raises AttributeError on a value that
\* is no dict
prepare_context_str(s, cfg) ==
    LET parsed == _try_parse_serialized_messages(s)
        items == IF parsed # None THEN parsed
                 ELSE << DictItem([role |-> UserRole, content |-> StrContent(s.text)]) >>
    IN  IF \E i \in DOMAIN items : ~items[i].is_dict
        THEN [raised |-> "AttributeError", out |-> <<>>]
        ELSE [raised |-> None,
              out |-> prepare_context([i \in DOMAIN items |-> items[i].value], cfg).out]

\* ======================================================================
\* Inputs of the compactor
\* ======================================================================
Pool ==
    { [role |-> UserRole, content |-> StrContent(Txt(<<"must">>))],
      [role |-> UserRole, content |-> StrContent(Padded(<<"must">>))],
      [role |-> UserRole, content |-> StrContent(Txt(<<BLOB, "x">>))],
      [role |-> UserRole, content |-> StrContent(Txt(<<BLOB, "y">>))],
      [role |-> AssistantRole, content |-> StrContent(Txt(<<"ERROR", "INC-">>))],
      [role |-> AssistantRole,
       content |-> ListContent(<<ToolUseBlock, ToolResultBlock(<<"INC-42", "ok">>)>>)],
      [role |-> AssistantRole, content |-> ListContent(<<ToolUseBlock>>)],
      [role |-> SystemRole, content |-> StrContent(Txt(<<"ERROR", "x">>))],
      [role |-> SystemRole, content |-> StrContent(Txt(<<"INC-42", "must">>))] }

Histories == UNION {[1..n -> Pool] : n \in 0..MaxLen}

Budgets == {0, 2, 226, 453}
KeepUser == {0, 1, 2}
KeepAssistant == {1, 2}

Configs ==
    [max_context_tokens : Budgets, keep_last_user : KeepUser,
     keep_last_assistant : KeepAssistant, min_length : {DefaultMinLength},
     drop_logs : BOOLEAN]

\* a MonitorContext built with its defaults
DefaultConfig ==
    [max_context_tokens |-> DefaultMaxContextTokens, keep_last_user |-> 2,
     keep_last_assistant |-> 2, min_length |-> DefaultMinLength, drop_logs |-> TRUE]

\* one user message, 40 assistant log dumps, one recent user message
LogDump == [role |-> AssistantRole, content |-> StrContent(Txt(<<"ERROR", "x", "y">>))]
LogDumpHistory ==
    << [role |-> UserRole, content |-> StrContent(Txt(<<"Handle", "incident", "INC-42">>))] >>
    \o [i \in 1..40 |-> LogDump]
    \o << [role |-> UserRole, content |-> StrContent(Txt(<<"retry", "with", "fix">>))] >>

\* a system message, the same message again, and a third one of the same cost
RepeatHistory ==
    << [role |-> SystemRole, content |-> StrContent(Txt(<<"INC-42", "must">>))],
       [role |-> SystemRole, content |-> StrContent(Txt(<<"INC-42", "must">>))],
       [role |-> SystemRole, content |-> StrContent(Txt(<<"must", "INC-42">>))] >>
\* a budget that holds two of them
RepeatConfig == [DefaultConfig EXCEPT !.max_context_tokens = 6]

CompactInit ==
    /\ c_pc = "ready"
    /\ \/ c_messages \in Histories /\ c_cfg \in Configs
       \/ c_messages = LogDumpHistory /\ c_cfg = DefaultConfig
       \/ c_messages = RepeatHistory /\ c_cfg = RepeatConfig
    /\ c_run = NoRun
    /\ c_out2 = <<>>
    /\ AgentIdle
    /\ UtilIdle

\* faulty variant: the normalisation loop writes the stripped text back into
\* the messages it keeps
CompactInPlace ==
    /\ c_pc = "ready"
    /\ c_run' = prepare_context(c_messages, c_cfg)
    /\ c_messages' =
          [i \in DOMAIN c_messages |->
              IF Keeps(c_messages[i], c_cfg)
              THEN [role |-> c_messages[i].role,
                    content |-> StrContent(NormText(c_messages[i]))]
              ELSE c_messages[i]]
    /\ c_pc' = "compacted"
    /\ UNCHANGED <<c_cfg, c_out2, a_vars, u_vars>>

\* out = prepare_context(messages)
Compact ==
    /\ c_pc = "ready"
    /\ c_run' = prepare_context(c_messages, c_cfg)
    /\ c_pc' = "compacted"
    /\ UNCHANGED <<c_messages, c_cfg, c_out2, a_vars, u_vars>>

\* prepare_context(out), same configuration
Recompact ==
    /\ c_pc = "compacted"
    /\ c_out2' = prepare_context(AsMessages(c_run.out), c_cfg).out
    /\ c_pc' = "recompacted"
    /\ UNCHANGED <<c_messages, c_cfg, c_run, a_vars, u_vars>>

\* a second prepare_context(messages) on the same list, same configuration
CompactAgain ==
    /\ c_pc = "compacted"
    /\ c_out2' = prepare_context(c_messages, c_cfg).out
    /\ c_pc' = "repeated"
    /\ UNCHANGED <<c_messages, c_cfg, c_run, a_vars, u_vars>>

CompactNext == Compact \/ Recompact \/ CompactAgain

CompactSpec == CompactInit /\ [][CompactNext]_vars

\* ======================================================================
\* Helper functions: truncate_result, truncate_memory (agent.py),
\* should_store_memory, normalize_memory (utils/memory_utils.py)
\* ======================================================================
MAX_MEMORY_CHARS == 4000

\* faulty variant: a text of exactly max_chars characters is marked as well
TruncateResultStrict(result_str, max_chars) ==
    IF Len(result_str) < max_chars
    THEN [text |-> result_str, markers |-> <<>>]
    ELSE [text |-> SubSeq(result_str, 1, max_chars),
          markers |-> <<[kind |-> "TRUNCATED", showing |-> max_chars,
                         total |-> Len(result_str)]>>]

\* truncate_result on the characters of str(result): the text kept and the
\* markers appended after it ("...[TRUNCATED: showing {max_chars}/{total_chars}
\* chars. ...]")
truncate_result_chars(result_str, max_chars) ==
    IF Len(result_str) <= max_chars
    THEN [text |-> result_str, markers |-> <<>>]
    ELSE [text |-> SubSeq(result_str, 1, max_chars),
          markers |-> <<[kind |-> "TRUNCATED", showing |-> max_chars,
                         total |-> Len(result_str)]>>]

\* truncate_memory ("...[MEMORY TRUNCATED: {len(memory_str)} chars total]")
truncate_memory(memory_str, max_chars) ==
    IF Len(memory_str) <= max_chars
    THEN [text |-> memory_str, markers |-> <<>>]
    ELSE [text |-> SubSeq(memory_str, 1, max_chars),
          markers |-> <<[kind |-> "MEMORY TRUNCATED", showing |-> max_chars,
                         total |-> Len(memory_str)]>>]

\* a dict is a function from its keys; `not content` is the empty dict
StorableTypes == {"fact", "decision", "constraint"}

\* faulty variant: one of the keys 'arguments', 'result' is enough to reject
ShouldStoreRejectsEither(memory_type, content) ==
    IF memory_type \notin StorableTypes THEN FALSE
    ELSE IF DOMAIN content = {} THEN FALSE
    ELSE IF "arguments" \in DOMAIN content \/ "result" \in DOMAIN content THEN FALSE
    ELSE TRUE

should_store_memory(memory_type, content) ==
    IF memory_type \notin StorableTypes THEN FALSE
    ELSE IF DOMAIN content = {} THEN FALSE
    ELSE IF "arguments" \in DOMAIN content /\ "result" \in DOMAIN content THEN FALSE
    ELSE TRUE

\* a returned string is the sequence of its pieces: a field of the content,
\* a literal, or one character written as its code point
Returned(pieces) == [raised |-> None, text |-> pieces]
KeyError == [raised |-> "KeyError", text |-> <<>>]

\* the separator between decision and reason as the source file spells it:
\* the three characters U+00E2 U+20AC U+201D
DecisionSeparator == <<"U+00E2", "U+20AC", "U+201D">>

\* str(content) of a dict
ReprOf(content) == "repr(content)"

normalize_memory(memory_type, content) ==
    CASE memory_type = "fact" ->
             IF "fact" \in DOMAIN content
             THEN Returned(<<content["fact"]>>) ELSE KeyError
      [] memory_type = "decision" ->
             IF {"decision", "reason"} \subseteq DOMAIN content
             THEN Returned(<<content["decision"], " ">> \o DecisionSeparator
                           \o <<" reason: ", content["reason"]>>)
             ELSE KeyError
      [] memory_type = "constraint" ->
             IF "constraint" \in DOMAIN content
             THEN Returned(<<content["constraint"]>>) ELSE KeyError
      [] OTHER -> Returned(<<memory_type, ": ", ReprOf(content)>>)

\* ---- replace_in_file (servers/editor/editor.py)
\* a file: whether it exists, and its text as a sequence of characters
File(text) == [exists |-> TRUE, text |-> text]
NoFile == [exists |-> FALSE, text |-> <<>>]

\* the codec names read_text and write_text can look up
KnownEncodings == {"utf-8"}
\* the encoding argument of p.read_text as the source spells it: one string
\* literal that holds the quote characters and the errors= text
ReadEncoding == "utf-8', errors='ignore"

\* re.subn(pattern, replacement, text) for the pattern "a" and the
\* replacement "c": the new text and the number of replacements
RECURSIVE subn(_)
subn(text) ==
    IF text = <<>> THEN [text |-> <<>>, n |-> 0]
    ELSE LET rest == subn(Tail(text))
         IN  IF Head(text) = "a"
             THEN [text |-> <<"c">> \o rest.text, n |-> rest.n + 1]
             ELSE [text |-> <<Head(text)>> \o rest.text, n |-> rest.n]

Reply(ok, error, replacements) == [ok |-> ok, error |-> error, replacements |-> replacements]

\* replace_in_file: the dict returned and the file afterwards; lock_held says
\* that another holder keeps the lock for the whole timeout, io_error that
\* reading the file fails
replace_in_file(file, lock_held, io_error) ==
    IF ~file.exists THEN [ret |-> Reply(FALSE, "not_found", 0), file |-> file]
    ELSE IF lock_held THEN [ret |-> Reply(FALSE, "lock_timeout", 0), file |-> file]
    ELSE IF ReadEncoding \notin KnownEncodings
         THEN [ret |-> Reply(FALSE, "unknown encoding", 0), file |-> file]
    ELSE IF io_error THEN [ret |-> Reply(FALSE, "io_error", 0), file |-> file]
    ELSE LET r == subn(file.text)
         IN  IF r.n = 0 THEN [ret |-> Reply(TRUE, "", 0), file |-> file]
             ELSE [ret |-> Reply(TRUE, "", r.n), file |-> File(r.text)]

\* ---- the calls
\* longest history handed to prune_messages, and largest window
MaxHistory == 5
MaxWindow == 4
\* longest text handed to the truncators, and largest max_chars
MaxText == 5
MaxChars == 4

\* longest file handed to replace_in_file
MaxFileLen == 3

\* a list of n distinct entries
Entries(n) == [i \in 1..n |-> i]

MemoryTypes == {"fact", "decision", "constraint", "action", "incident", "reflection"}
ContentKeys == {"fact", "decision", "reason", "constraint", "arguments", "result"}
\* the value stored under a key
ValueOf(k) ==
    CASE k = "fact" -> "X"
      [] k = "decision" -> "redact passwords"
      [] k = "reason" -> "PII exposure"
      [] k = "constraint" -> "never log card numbers"
      [] k = "arguments" -> "{'path': 'a.py'}"
      [] OTHER -> "ok"
Contents == {[k \in keys |-> ValueOf(k)] : keys \in SUBSET ContentKeys}

\* top-level strings with what the loaders make of them
NoItems == [kind |-> "error", items |-> <<>>]
SerializedStrings ==
    { [text |-> Txt(<<"must", "x">>), loads |-> NoItems],
      [text |-> Txt(<<"[oops", "must">>), loads |-> NoItems],
      [text |-> Padded(<<"[oops", "must">>), loads |-> NoItems],
      [text |-> Txt(<<"{'a':", "1}">>), loads |-> [kind |-> "dict", items |-> <<>>]],
      [text |-> Txt(<<"(1,", "2)">>), loads |-> [kind |-> "tuple", items |-> <<>>]],
      [text |-> Txt(<<"[1,", "2]">>),
       loads |-> [kind |-> "list", items |-> <<OtherItem, OtherItem>>]],
      [text |-> Txt(<<"[{'role':'user','content':'must'}]">>),
       loads |-> [kind |-> "list",
                  items |-> << DictItem([role |-> UserRole,
                                         content |-> StrContent(Txt(<<"must">>))]) >>]] }

UtilCalls ==
    {[fn |-> "prune_messages", messages |-> Entries(n), max_messages |-> k] :
        n \in 0..MaxHistory, k \in 1..MaxWindow}
    \cup {[fn |-> f, text |-> Entries(n), max_chars |-> k] :
        f \in {"truncate_result", "truncate_memory"}, n \in 0..MaxText, k \in 0..MaxChars}
    \cup {[fn |-> "truncate_result", text |-> Entries(50000),
            max_chars |-> MAX_RESULT_CHARS],
           [fn |-> "truncate_memory", text |-> Entries(5000),
            max_chars |-> MAX_MEMORY_CHARS]}
    \cup {[fn |-> f, memory_type |-> t, content |-> c] :
        f \in {"should_store_memory", "normalize_memory"}, t \in MemoryTypes,
        c \in Contents}
    \cup {[fn |-> "replace_in_file", file |-> f, lock_held |-> l, io_error |-> e] :
        f \in {NoFile} \cup {File(t) : t \in UNION {[1..n -> {"a", "b"}] : n \in 0..MaxFileLen}},
        l \in BOOLEAN, e \in BOOLEAN}
    \cup {[fn |-> "prepare_context", serialized |-> str, cfg |-> cfg] :
        str \in SerializedStrings, cfg \in Configs}

UtilInit ==
    /\ u_pc = "ready"
    /\ u_in \in UtilCalls
    /\ u_out = <<>>
    /\ CompactIdle
    /\ AgentIdle

Return(value) ==
    /\ u_pc = "ready"
    /\ u_out' = value
    /\ u_pc' = "returned"
    /\ UNCHANGED <<u_in, c_vars, a_vars>>

PruneMessages ==
    /\ u_in.fn = "prune_messages"
    /\ Return(prune_messages(u_in.messages, u_in.max_messages))

TruncateResult ==
    /\ u_in.fn = "truncate_result"
    /\ Return(truncate_result_chars(u_in.text, u_in.max_chars))

TruncateMemory ==
    /\ u_in.fn = "truncate_memory"
    /\ Return(truncate_memory(u_in.text, u_in.max_chars))

ShouldStoreMemory ==
    /\ u_in.fn = "should_store_memory"
    /\ Return(should_store_memory(u_in.memory_type, u_in.content))

NormalizeMemory ==
    /\ u_in.fn = "normalize_memory"
    /\ Return(normalize_memory(u_in.memory_type, u_in.content))

PrepareContextOfString ==
    /\ u_in.fn = "prepare_context"
    /\ Return(prepare_context_str(u_in.serialized, u_in.cfg))

ReplaceInFile ==
    /\ u_in.fn = "replace_in_file"
    /\ Return(replace_in_file(u_in.file, u_in.lock_held, u_in.io_error))

UtilNext ==
    \/ ReplaceInFile
    \/ PrepareContextOfString
    \/ PruneMessages
    \/ TruncateResult
    \/ TruncateMemory
    \/ ShouldStoreMemory
    \/ NormalizeMemory

UtilSpec == UtilInit /\ [][UtilNext]_vars

\* ======================================================================
\* Properties of the compactor
\* ======================================================================
RECURSIVE Cost(_)
Cost(s) == IF s = <<>> THEN 0 ELSE estimate_tokens(Head(s).content) + Cost(Tail(s))

\* a is a subsequence of b (greedy matching)
RECURSIVE IsSubseq(_, _)
IsSubseq(a, b) ==
    IF a = <<>> THEN TRUE
    ELSE IF b = <<>> THEN FALSE
    ELSE IF Head(a) = Head(b) THEN IsSubseq(Tail(a), Tail(b))
    ELSE IsSubseq(a, Tail(b))

\* the last k elements of s, none when k = 0
LastStrict(s, k) == IF k >= Len(s) THEN s ELSE SubSeq(s, Len(s) - k + 1, Len(s))

\* the forced-retention messages as the claims state them
StatedForced ==
    Range(LastStrict(SelectSeq(c_run.normalized, LAMBDA m : m.role = UserRole),
                     c_cfg.keep_last_user))
    \cup Range(LastStrict(SelectSeq(c_run.normalized, LAMBDA m : m.role = AssistantRole),
                          c_cfg.keep_last_assistant))

Compacted == c_pc # "ready"

\* C1 (as stated): every forced-retention message appears in the output,
\* also when the forced messages alone cost more than max_context_tokens.
C1_ForcedAlwaysInOutput ==
    Compacted => \A m \in StatedForced : m \in Range(c_run.out)

\* C2: the estimated tokens of the output sum to at most max_context_tokens,
\* or the output without its forced-retention messages does.
C2_OutputWithinBudget ==
    Compacted =>
        \/ Cost(c_run.out) <= c_cfg.max_context_tokens
        \/ Cost(SelectSeq(c_run.out, LAMBDA m : m \notin c_run.forced))
               <= c_cfg.max_context_tokens

\* C2 witness: the budget was binding: a message was admitted, another refused
C2_Witness ==
    /\ c_pc = "compacted"
    /\ \E i, j \in 1..Len(c_run.trace) :
          c_run.trace[i].added /\ ~c_run.trace[j].added
    /\ Cost(c_run.out) > 0

PositiveCandidates == SelectSeq(c_run.candidates, LAMBDA c : 0 - c.key > 0)

\* C3: at every step of packing the remaining budget is >= 0; a message is
\* admitted exactly when its whole cost fits, otherwise it is skipped and
\* the later candidates are still tried; every output content is the full
\* normalized text of an input message.
C3_BudgetNeverNegative ==
    Compacted =>
        /\ \A i \in 1..Len(c_run.trace) :
              LET st == c_run.trace[i]
              IN  /\ st.before >= 0 /\ st.after >= 0
                  /\ st.cost = estimate_tokens(st.msg.content)
                  /\ st.added <=> (st.cost <= st.before)
                  /\ st.after = (IF st.added THEN st.before - st.cost ELSE st.before)
                  /\ st.before = (IF i = 1 THEN c_cfg.max_context_tokens
                                  ELSE c_run.trace[i - 1].after)
        /\ Len(c_run.trace) = Len(c_run.forced_in_order) + Len(PositiveCandidates)
        /\ \A i \in 1..Len(PositiveCandidates) :
              c_run.trace[Len(c_run.forced_in_order) + i].msg = PositiveCandidates[i].val
        /\ \A k \in 1..Len(c_run.out) :
              \E i \in 1..Len(c_messages) :
                  /\ Keeps(c_messages[i], c_cfg)
                  /\ c_run.out[k].role = c_messages[i].role
                  /\ c_run.out[k].content = NormText(c_messages[i])

\* C3 witness: a candidate was skipped for its cost and a later one admitted
C3_Witness ==
    /\ c_pc = "compacted"
    /\ \E i, j \in (Len(c_run.forced_in_order) + 1)..Len(c_run.trace) :
          /\ i < j
          /\ ~c_run.trace[i].added
          /\ c_run.trace[j].added
          /\ c_run.trace[j].msg \in Range(c_run.out)

\* C4: prepare_context applied to its own output returns that output.
C4_Idempotent == c_pc = "recompacted" => c_out2 = c_run.out

\* C4 witness: a second pass over an output that lacks a forced message
C4_Witness ==
    /\ c_pc = "recompacted"
    /\ Len(c_run.out) >= 2
    /\ \E m \in StatedForced : m \notin Range(c_run.out)

\* C5: the output is a subsequence of the filtered list, in its order.
C5_ChronologicalSubsequence == Compacted => IsSubseq(c_run.out, c_run.normalized)

\* C5 witness: messages admitted out of chronological order, from a filtered
\* list that repeats a message
C5_Witness ==
    /\ c_pc = "compacted"
    /\ Len(c_run.out) >= 2
    /\ \E i, j \in 1..Len(c_run.trace) :
          /\ i < j
          /\ c_run.trace[i].added /\ c_run.trace[j].added
          /\ IndexOf(c_run.normalized, c_run.trace[j].msg)
                 < IndexOf(c_run.normalized, c_run.trace[i].msg)
    /\ \E i, j \in 1..Len(c_run.normalized) :
          i < j /\ c_run.normalized[i] = c_run.normalized[j]

\* C6: no two output messages share the key (role, first 900 characters).
C6_DistinctKeys ==
    Compacted =>
        \A i, j \in 1..Len(c_run.out) :
            i < j =>
                \/ c_run.out[i].role # c_run.out[j].role
                \/ TakeChars(c_run.out[i].content.words, PrefixLen)
                       # TakeChars(c_run.out[j].content.words, PrefixLen)

\* C6 witness: two admitted messages differ only after their first 900
\* characters, and one of them is emitted
C6_Witness ==
    /\ c_pc = "compacted"
    /\ \E i, j \in 1..Len(c_run.selected) :
          /\ i < j
          /\ c_run.selected[i] # c_run.selected[j]
          /\ Key(c_run.selected[i]) = Key(c_run.selected[j])
          /\ c_run.selected[i] \in Range(c_run.out)

\* ======================================================================
\* Properties of the router and the agent loop
\* ======================================================================
ToolUsesOf(m) == SelectSeq(m.content, LAMBDA b : b.type = "tool_use")
ToolResultsOf(m) == SelectSeq(m.content, LAMBDA b : b.type = "tool_result")
DispatchesOf(id) == {d \in DOMAIN dispatches : dispatches[d].id = id}
CallsOf(id) == {c \in DOMAIN calls : calls[c].id = id}
\* the loop's memory writes for tool calls (the reflection is the other one)
ToolWritesOf(id) ==
    {w \in DOMAIN memory_writes :
        memory_writes[w].memory_type # "reflection" /\ memory_writes[w].id = id}
\* positions <<k, j>> of the tool_result blocks stored for a tool call
StoredResultsOf(id) ==
    {kj \in UNION {{<<k, j>> : j \in DOMAIN messages[k].content} : k \in DOMAIN messages} :
        /\ messages[kj[1]].content[kj[2]].type = "tool_result"
        /\ messages[kj[1]].content[kj[2]].id = id}

\* C7: when the next model request can be issued, every response that held
\* tool_use blocks t1..tn is followed by one user message of exactly n
\* tool_result blocks, the i-th with the id of ti, and every ti was
\* dispatched exactly once and has exactly one result.
C7_OneResultPerToolCall ==
    /\ \A d \in DOMAIN dispatches : Cardinality(DispatchesOf(dispatches[d].id)) = 1
    /\ pc = "request" =>
          \A k \in DOMAIN messages :
              LET uses == ToolUsesOf(messages[k])
              IN  (messages[k].role = AssistantRole /\ uses # <<>>) =>
                      /\ k < Len(messages)
                      /\ messages[k + 1].role = UserRole
                      /\ Len(messages[k + 1].content) = Len(uses)
                      /\ \A j \in 1..Len(uses) :
                            /\ messages[k + 1].content[j].type = "tool_result"
                            /\ messages[k + 1].content[j].id = uses[j].id
                            /\ Cardinality(DispatchesOf(uses[j].id)) = 1
                            /\ Cardinality(StoredResultsOf(uses[j].id)) = 1

\* C7 witness: a second cycle has ended after a response with two tool calls,
\* one of which ended in an error
C7_Witness ==
    /\ pc = "request"
    /\ requests = 2
    /\ Len(ToolUsesOf(messages[Len(messages) - 1])) = 2
    /\ \E j \in 1..2 : messages[Len(messages)].content[j].is_error

\* C8: the loop writes at most one memory record per tool call, and none for
\* a tool call that was routed to the memory domain.
C8_MemoryWritePerToolCall ==
    /\ \A w \in DOMAIN memory_writes :
          memory_writes[w].memory_type # "reflection" =>
              /\ Cardinality(ToolWritesOf(memory_writes[w].id)) = 1
              /\ \E d \in DOMAIN dispatches :
                    /\ dispatches[d].id = memory_writes[w].id
                    /\ dispatches[d].backend # "memory"
    /\ \A d \in DOMAIN dispatches :
          dispatches[d].backend = "memory" => ToolWritesOf(dispatches[d].id) = {}

\* C8 witness: a call served by the memory domain and a recorded incident
\* call, both finished
C8_Witness ==
    /\ pc = "request"
    /\ \E d \in DOMAIN dispatches :
          dispatches[d].backend = "memory" /\ ~dispatches[d].raised
    /\ \E w \in DOMAIN memory_writes :
          memory_writes[w].memory_type = "incident" /\ memory_writes[w].stored

\* C9: a registered tool name is served by exactly one backend, one that
\* publishes it, the same on every call, and never ends as an unknown tool.
C9_DispatchTotal ==
    \A d \in DOMAIN dispatches :
        dispatches[d].name \in Registered(reg) =>
            /\ dispatches[d].backend \in {"incident", "memory", "code_index",
                                          "editor", "shell"}
            /\ dispatches[d].name \in reg[dispatches[d].backend]
            /\ dispatches[d].ret.result.kind # "unknown_tool"
            /\ Cardinality(CallsOf(dispatches[d].id)) = 1
            /\ \A c \in CallsOf(dispatches[d].id) :
                  calls[c].backend = dispatches[d].backend
            /\ \A e \in DOMAIN dispatches :
                  dispatches[e].name = dispatches[d].name =>
                      dispatches[e].backend = dispatches[d].backend

\* C9 witness: a name published by several domains was dispatched twice,
\* once with a failing backend
C9_Witness ==
    \E d, e \in DOMAIN dispatches :
        /\ d < e
        /\ dispatches[d].name = "probe" /\ dispatches[e].name = "probe"
        /\ "probe" \in reg.memory \cap reg.editor
        /\ dispatches[d].raised /\ ~dispatches[e].raised

RaisedDispatches == {d \in DOMAIN dispatches : dispatches[d].raised}

\* C10: a failing backend call is returned as an error result (message, no
\* memory classification, is_error); no memory record is written for it, its
\* tool_result is appended, and the loop reaches the next model request
\* without aborting.
C10_State ==
    /\ \A d \in RaisedDispatches :
          /\ dispatches[d].ret.is_error
          /\ dispatches[d].ret.memory_type = None
          /\ dispatches[d].ret.result.kind = "tool_failed"
          /\ ToolWritesOf(dispatches[d].id) = {}
    /\ pc = "request" =>
          \A d \in RaisedDispatches :
              \E kj \in StoredResultsOf(dispatches[d].id) :
                  /\ messages[kj[1]].role = UserRole
                  /\ messages[kj[1]].content[kj[2]].is_error
                  /\ messages[kj[1]].content[kj[2]].content.kind = "tool_failed"
C10_Step ==
    /\ pc = "dispatch" => pc' \in {"memory", "result"}
    /\ (pc = "dispatch" /\ cur'.is_error) => pc' = "result"
    /\ pc = "memory" => pc' = "result"
    /\ pc = "result" => pc' \in {"dispatch", "batch"}
    /\ pc = "batch" => pc' = "request"
C10_BackendFailureContained == [](C10_State) /\ [][C10_Step]_vars

\* C10 witness: an incident tool call failed and the loop is back at the
\* model request with its error result stored
C10_Witness ==
    /\ pc = "request"
    /\ \E d \in RaisedDispatches :
          /\ dispatches[d].backend = "incident"
          /\ StoredResultsOf(dispatches[d].id) # {}

\* ----------------------------------------------------------------------
UnknownDispatches == {d \in DOMAIN dispatches : dispatches[d].name \notin Registered(reg)}

\* C11 (state part): a dispatch of a tool name that no server registered
\* invokes no backend and returns an error with is_error set and no memory
\* classification, so no memory record is written for it; when the next model
\* request can be issued, every tool call of a response that held such a name
\* was dispatched once and the unknown one has a stored tool_result with
\* is_error.
C11_State ==
    /\ \A d \in UnknownDispatches :
          LET x == dispatches[d]
          IN  /\ x.backend = "none"
              /\ CallsOf(x.id) = {}
              /\ x.ret.is_error
              /\ x.ret.memory_type = None
              /\ x.ret.result.kind = "unknown_tool"
              /\ ToolWritesOf(x.id) = {}
    /\ pc = "request" =>
          \A k \in DOMAIN messages :
              LET uses == ToolUsesOf(messages[k])
              IN  (\E j \in DOMAIN uses : uses[j].name \notin Registered(reg)) =>
                      \A j \in DOMAIN uses :
                          /\ Cardinality(DispatchesOf(uses[j].id)) = 1
                          /\ uses[j].name \notin Registered(reg) =>
                                \E kj \in StoredResultsOf(uses[j].id) :
                                    LET b == messages[kj[1]].content[kj[2]]
                                    IN  /\ b.is_error
                                        /\ b.content.kind = "unknown_tool"

\* C11 (step part): dispatching an unknown tool name calls no backend, writes
\* no memory and leads to the building of its tool_result, never out of the
\* loop.
C11_Step ==
    (pc = "dispatch" /\ tool_uses[idx].name \notin Registered(reg)) =>
        /\ pc' = "result"
        /\ calls' = calls
        /\ memory_writes' = memory_writes
        /\ cur'.is_error

\* C11: an unknown tool name invokes no backend and yields an error result
\* (is_error, no memory classification) stored as a tool_result; the other
\* tool calls of the same response are still dispatched and the loop goes on
\* to the next model request.
C11_UnknownToolIsErrorResult == [](C11_State) /\ [][C11_Step]_vars

\* C11 witness: the first response named an unknown tool and then a registered
\* one, which a backend served, and the second model request was answered
C11_Witness ==
    /\ requests = 2
    /\ pc \in {"dispatch", "final"}
    /\ \E d \in UnknownDispatches, e \in DOMAIN dispatches :
          /\ d < e
          /\ dispatches[d].id < 20
          /\ dispatches[e].id < 20
          /\ dispatches[e].backend # "none"
          /\ ~dispatches[e].ret.is_error

\* ----------------------------------------------------------------------
\* the tool call is over: dispatched once, its memory write (if the dispatch
\* asked for one) made once, stored or failed, and its result stored once
Settled(id) ==
    /\ Cardinality(DispatchesOf(id)) = 1
    /\ \A d \in DispatchesOf(id) :
          Cardinality(ToolWritesOf(id)) =
              IF dispatches[d].ret.memory_type # None /\ ~dispatches[d].ret.is_error
              THEN 1 ELSE 0
    /\ Cardinality(StoredResultsOf(id)) = 1

C12_Step ==
    requests' # requests =>
        /\ requests' = requests + 1
        /\ pc = "request"
        /\ \A k \in DOMAIN messages :
              \A j \in DOMAIN ToolUsesOf(messages[k]) :
                  Settled(ToolUsesOf(messages[k])[j].id)
        /\ tool_uses # <<>> =>
              /\ messages[Len(messages)].role = UserRole
              /\ messages[Len(messages)].content = tool_result_blocks
              /\ Len(tool_result_blocks) = Len(tool_uses)

\* C12: model requests are issued one at a time, and only after every tool
\* call of the previous response has finished its dispatch and its memory
\* write (completed or failed) and the batch of results has been appended to
\* the history.
C12_RequestAfterBatchSettled == [][C12_Step]_vars

\* C12 witness: the second model request was issued after a cycle in which
\* the memory write of a tool call failed
C12_Witness ==
    /\ requests = 2
    /\ pc \in {"dispatch", "final", "aborted"}
    /\ sent # InitialMessages
    /\ \E w \in DOMAIN memory_writes :
          /\ memory_writes[w].memory_type # "reflection"
          /\ ~memory_writes[w].stored

\* ----------------------------------------------------------------------
ReflectionWrites ==
    {w \in DOMAIN memory_writes : memory_writes[w].memory_type = "reflection"}
\* the responses without a tool_use block
FinalMessages ==
    {k \in DOMAIN messages :
        messages[k].role = AssistantRole /\ ToolUsesOf(messages[k]) = <<>>}
InToolBranch == pc \in {"dispatch", "memory", "result", "batch"}

C13_State ==
    /\ Cardinality(ReflectionWrites) <= 1
    /\ \A k \in FinalMessages :
          /\ k = Len(messages)
          /\ pc \in {"final", "done", "aborted"}
    /\ pc = "final" => (ReflectionWrites = {} /\ FinalMessages # {})
    /\ pc = "done" => (Cardinality(ReflectionWrites) = 1 /\ FinalMessages # {})
    /\ ReflectionWrites # {} => (pc \in {"done", "aborted"} /\ FinalMessages # {})
    /\ InToolBranch => tool_uses # <<>>
    /\ (pc = "request" /\ requests < MaxRequests) => ENABLED ModelRequest

C13_Step ==
    /\ FinalMessages # {} =>
          /\ requests' = requests
          /\ dispatches' = dispatches
          /\ calls' = calls
          /\ messages' = messages
    /\ pc = "final" =>
          /\ Cardinality(ReflectionWrites') = 1
          /\ pc' \in {"done", "aborted"}
    /\ InToolBranch => (InToolBranch' \/ pc' = "request")

\* C13: the loop ends at the first response without a tool_use block: no
\* tool is dispatched for it, one reflection memory write is issued and no
\* further model request is made; a response with a tool_use block leads
\* back to the next model request.
C13_EndsAtFirstResponseWithoutToolUse == [](C13_State) /\ [][C13_Step]_vars

\* C13 witness: a response with tool calls was followed by a second request,
\* whose response had none, and the reflection was written
C13_Witness ==
    /\ pc = "done"
    /\ requests = 2
    /\ dispatches # <<>>
    /\ Cardinality(ReflectionWrites) = 1

\* ----------------------------------------------------------------------
\* three dispatches in a row, starting at the i-th, of the same tool name,
\* each of which returned an error
ThreeFailuresFrom(i) ==
    /\ i + 2 \in DOMAIN dispatches
    /\ \A j \in i..(i + 2) :
          /\ dispatches[j].name = dispatches[i].name
          /\ dispatches[j].ret.is_error

\* C14 (as stated): once the same operation has failed on three consecutive
\* attempts the loop stops retrying it: it is not dispatched a fourth time.
C14_StopsAfterThreeFailures ==
    \A i \in DOMAIN dispatches :
        ThreeFailuresFrom(i) =>
            ~(/\ i + 3 \in DOMAIN dispatches
              /\ dispatches[i + 3].name = dispatches[i].name)

\* ----------------------------------------------------------------------
\* length of the marker truncate_result appends to a result of 50000 characters
TruncationMarkerLen == 80

\* len(extract_text(...)) of one block of a stored message: the two initial
\* texts, a text of the model, the string of a tool_result; tool_use is skipped
BlockChars(b) ==
    CASE b.type = "text" ->
             (CASE b.name = "task" -> 54
                [] b.name = "instruction" -> 310
                [] OTHER -> 40)
      [] b.type = "tool_result" ->
             b.content.shown + (IF b.content.truncated THEN TruncationMarkerLen ELSE 0)
      [] OTHER -> 0

\* len(" ".join(p for p in parts if p))
RECURSIVE JoinedChars(_)
JoinedChars(bs) ==
    IF bs = <<>> THEN 0
    ELSE LET n == BlockChars(Head(bs))
             rest == JoinedChars(Tail(bs))
         IN  IF n = 0 THEN rest
             ELSE IF rest = 0 THEN n
             ELSE n + 1 + rest

\* estimate_tokens(extract_text(m["content"]))
MessageTokens(m) ==
    LET c == (JoinedChars(m.content) + 3) \div 4
    IN  IF c < 1 THEN 1 ELSE c

RECURSIVE TokensOf(_)
TokensOf(msgs) ==
    IF msgs = <<>> THEN 0 ELSE MessageTokens(Head(msgs)) + TokensOf(Tail(msgs))

\* C15 (as stated): the messages of every model request are the compacted
\* history, so their estimated tokens stay within the token budget.
C15_RequestWithinTokenBudget ==
    requests > 0 => TokensOf(sent) <= DefaultMaxContextTokens

\* ----------------------------------------------------------------------
\* Properties of the helper functions
\* ----------------------------------------------------------------------
Returns(fn) == u_pc = "returned" /\ u_in.fn = fn

\* C16 (as stated): for max_messages >= 1, a history of at most
\* max_messages entries is returned unchanged, and a longer one is reduced to
\* exactly max_messages entries: the first message followed by the most
\* recent max_messages - 1 messages in their order.
C16_SlidingWindow ==
    Returns("prune_messages") =>
        LET h == u_in.messages
            n == u_in.max_messages
        IN  IF Len(h) <= n THEN u_out = h
            ELSE /\ Len(u_out) = n
                 /\ u_out = <<h[1]>> \o SubSeq(h, Len(h) - n + 2, Len(h))

\* C17: truncate_result and truncate_memory return a text of at most
\* max_chars characters unchanged and without a marker; of a longer text they
\* return exactly the first max_chars characters followed by exactly one
\* marker, which states the original total size.
C17_TruncationKeepsPrefixAndTotal ==
    (Returns("truncate_result") \/ Returns("truncate_memory")) =>
        LET s == u_in.text
            n == u_in.max_chars
        IN  IF Len(s) <= n
            THEN u_out.text = s /\ u_out.markers = <<>>
            ELSE /\ Len(u_out.text) = n
                 /\ \A i \in 1..n : u_out.text[i] = s[i]
                 /\ Len(u_out.markers) = 1
                 /\ u_out.markers[1].total = Len(s)

\* C17 witness: a tool result of 50000 characters was truncated with
\* max_chars = 8000 to 8000 characters and one marker stating 50000
C17_Witness ==
    /\ Returns("truncate_result")
    /\ Len(u_in.text) = 50000
    /\ u_in.max_chars = 8000
    /\ Len(u_out.text) = 8000
    /\ Len(u_out.markers) = 1
    /\ u_out.markers[1].total = 50000

\* C18: should_store_memory returns true exactly when memory_type is fact,
\* decision or constraint, the content is not empty and does not hold both
\* an 'arguments' and a 'result' key; so never for type 'action', not for
\* ('fact', {arguments, result}), and it does for ('fact', {'fact': 'X'}).
C18_StoreExactlyDurableContent ==
    Returns("should_store_memory") =>
        LET t == u_in.memory_type
            keys == DOMAIN u_in.content
        IN  /\ u_out \in BOOLEAN
            /\ u_out = TRUE <=>
                  /\ t \in {"fact", "decision", "constraint"}
                  /\ keys # {}
                  /\ ~({"arguments", "result"} \subseteq keys)
            /\ t = "action" => u_out = FALSE
            /\ (t = "fact" /\ keys = {"arguments", "result"}) => u_out = FALSE
            /\ (t = "fact" /\ u_in.content = [k \in {"fact"} |-> "X"]) => u_out = TRUE

\* C18 witness: a fact whose content holds only one of the two keys of a
\* tool-call trace is stored
C18_Witness ==
    /\ Returns("should_store_memory")
    /\ u_in.memory_type = "fact"
    /\ DOMAIN u_in.content = {"fact", "arguments"}
    /\ u_out = TRUE

\* the em dash, U+2014
EmDash == "U+2014"

\* C19 (as stated): a fact renders as its 'fact' field, a constraint as its
\* 'constraint' field, a decision as '<decision> (em dash) reason: <reason>' with a
\* single em dash as separator, any other type as '<type>: <content>'.
C19_RenderingOfMemories ==
    (Returns("normalize_memory") /\ u_out.raised = None) =>
        LET t == u_in.memory_type
            c == u_in.content
        IN  u_out.text =
                CASE t = "fact" -> <<c["fact"]>>
                  [] t = "constraint" -> <<c["constraint"]>>
                  [] t = "decision" ->
                         <<c["decision"], " ", EmDash, " reason: ", c["reason"]>>
                  [] OTHER -> <<t, ": ", ReprOf(c)>>

\* ----------------------------------------------------------------------
\* \bseverity\b
HasSeverityWord(t) == \E i \in 1..Len(t.words) : t.words[i] \in {"severity"}

\* the two user messages of the log-dump history, as the compactor returns them
LogDumpUsers ==
    << [role |-> UserRole, content |-> Txt(<<"Handle", "incident", "INC-42">>)],
       [role |-> UserRole, content |-> Txt(<<"retry", "with", "fix">>)] >>

LogDumpScenario ==
    (Compacted /\ c_messages = LogDumpHistory /\ c_cfg = DefaultConfig) =>
        c_run.out = LogDumpUsers

\* C20 (as stated): with log dropping enabled, a log-like message that holds
\* neither an incident identifier nor the word 'severity' never appears in
\* the output; and the history of one user message, 40 assistant log dumps
\* and one recent user message compacts to the two user messages.
C20_LogLikeWithoutIdentifierDropped ==
    /\ (Compacted /\ c_cfg.drop_logs) =>
          \A i \in DOMAIN c_run.out :
              LET t == c_run.out[i].content
              IN  ~(_is_log(t) /\ ~HasIdentifier(t) /\ ~HasSeverityWord(t))
    /\ LogDumpScenario

\* C20 (amended): with log dropping enabled, a log-like message whose text
\* holds neither the substring 'INC-' nor, in any letter case, the substring
\* 'severity' never appears in the output, whatever its role, recency or
\* count; and the history of one user message, 40 assistant log dumps and one
\* recent user message compacts to the two user messages in their order.
C20_LogLikeWithoutIncSubstringDropped ==
    /\ (Compacted /\ c_cfg.drop_logs) =>
          \A i \in DOMAIN c_run.out :
              LET t == c_run.out[i].content
              IN  ~(_is_log(t) /\ ~HasIncOrSeverity(t))
    /\ LogDumpScenario

\* C20 witness: the log-dump history was compacted: all 40 log dumps, the two
\* most recent assistant messages among them, were dropped
C20_Witness ==
    /\ c_pc = "compacted"
    /\ c_messages = LogDumpHistory
    /\ Len(c_messages) = 42
    /\ \A i \in 2..41 : _is_log(NormText(c_messages[i]))
    /\ c_run.out = LogDumpUsers

\* ----------------------------------------------------------------------
\* C21: a successful dispatch returns the memory classification of the
\* domain that served the call, whatever the result: 'incident' for the
\* incident domain, none for the memory, code-search, editor and shell
\* domains; no other domain serves a call.
C21_ClassificationByDomain ==
    \A d \in DOMAIN dispatches :
        LET x == dispatches[d]
        IN  ~x.ret.is_error =>
                /\ x.backend \in {"incident", "memory", "code_index", "editor", "shell"}
                /\ x.ret.memory_type = (IF x.backend = "incident" THEN "incident" ELSE None)

\* C21 witness: two incident calls that returned results of different sizes
\* and a call served by the memory domain, all successful
C21_Witness ==
    \E d, e, f \in DOMAIN dispatches :
        /\ dispatches[d].backend = "incident"
        /\ dispatches[e].backend = "incident"
        /\ ~dispatches[d].ret.is_error
        /\ ~dispatches[e].ret.is_error
        /\ dispatches[d].ret.result.len # dispatches[e].ret.result.len
        /\ dispatches[d].ret.memory_type = "incident"
        /\ dispatches[e].ret.memory_type = "incident"
        /\ dispatches[f].backend = "memory"
        /\ ~dispatches[f].ret.is_error
        /\ dispatches[f].ret.memory_type = None

\* ----------------------------------------------------------------------
\* C22 (as stated): prepare_context never raises on a string; a string that
\* starts like a serialized list or dict but does not parse, or parses to
\* something that is no list of messages, gives what the single user message
\* holding the string gives.
C22_MalformedStringIsPlainText ==
    Returns("prepare_context") =>
        LET s == u_in.serialized
            is_messages == /\ s.loads.kind = "list"
                           /\ \A i \in DOMAIN s.loads.items : s.loads.items[i].is_dict
        IN  /\ u_out.raised = None
            /\ (StartsWithBracket(Strip(s.text)) /\ ~is_messages) =>
                  u_out.out = prepare_context(
                      << [role |-> UserRole, content |-> StrContent(s.text)] >>,
                      u_in.cfg).out

\* ----------------------------------------------------------------------
IsText(t) == DOMAIN t = {"lead", "words", "trail"}

C23_State ==
    /\ Compacted =>
          \A i \in DOMAIN c_run.out :
              /\ DOMAIN c_run.out[i] = {"role", "content"}
              /\ IsText(c_run.out[i].content)
    /\ c_pc = "repeated" => c_out2 = c_run.out

C23_Step == c_messages' = c_messages /\ c_cfg' = c_cfg

C24_ReplaceAllMatches ==
    Returns("replace_in_file") =>
        LET f == u_in.file
            r == subn(f.text)
        IN  /\ (f.exists /\ ~u_in.lock_held /\ ~u_in.io_error) =>
                  /\ u_out.ret.ok
                  /\ u_out.ret.replacements = r.n
                  /\ u_out.file = File(r.text)
            /\ ~u_out.ret.ok => (~f.exists \/ u_in.lock_held \/ u_in.io_error)

\* ----------------------------------------------------------------------
\* C25 (as stated): the forced-retention set is exactly the most recent
\* keep_last_user user messages and the most recent keep_last_assistant
\* assistant messages of the filtered list (all when fewer exist); the
\* distinct forced messages of a role never outnumber the setting for that
\* role, so a setting of 0 forces no message of that role.
C25_ForcedSetIsMostRecent ==
    Compacted =>
        /\ c_run.forced = StatedForced
        /\ Cardinality({m \in c_run.forced : m.role = UserRole}) <= c_cfg.keep_last_user
        /\ Cardinality({m \in c_run.forced : m.role = AssistantRole})
               <= c_cfg.keep_last_assistant

\* ----------------------------------------------------------------------
\* the retained messages at the positions of their first occurrences in the
\* filtered list
RetainedAtFirstOccurrence ==
    SelectSeq(FirstOccurrences(c_run.normalized, {}),
              LAMBDA m : m \in Range(c_run.out))

\* C26 (as stated): a retained (role, content) that occurs more than once in
\* the filtered list is emitted once, at the position of its first occurrence
\* relative to the other retained messages.
C26_DuplicateAtFirstOccurrence ==
    Compacted => c_run.out = RetainedAtFirstOccurrence

\* ----------------------------------------------------------------------
\* C27 (as stated): in the messages of every model request, each tool_result
\* block of a user message has a tool_use block with the same id in the
\* assistant message just before it; pruning never keeps a result without
\* the assistant message that asked for it.
C27_ResultsFollowTheirToolUse ==
    requests > 0 =>
        \A k \in DOMAIN sent :
            \A j \in DOMAIN sent[k].content :
                sent[k].content[j].type = "tool_result" =>
                    /\ k > 1
                    /\ sent[k - 1].role = AssistantRole
                    /\ \E i \in DOMAIN sent[k - 1].content :
                          /\ sent[k - 1].content[i].type = "tool_use"
                          /\ sent[k - 1].content[i].id = sent[k].content[j].id

\* ----------------------------------------------------------------------
\* C28: the message list of every model request, and the stored list whenever
\* a request can be issued, has at most MAX_MESSAGES entries and starts with
\* the original task message, however many tool-use cycles have run.
C28_WindowBoundsEveryRequest ==
    /\ requests > 0 =>
          /\ Len(sent) <= MAX_MESSAGES
          /\ sent[1] = InitialMessages[1]
    /\ pc = "request" =>
          /\ Len(messages) <= MAX_MESSAGES
          /\ messages[1] = InitialMessages[1]

\* C28 witness: a request was issued after more tool-use cycles than the
\* window holds, so that the history had been pruned
C28_Witness ==
    /\ requests > 0
    /\ Len(sent) = MAX_MESSAGES
    /\ 2 * Len(dispatches) + 2 > MAX_MESSAGES
    /\ sent[2] # InitialMessages[2]

\* ----------------------------------------------------------------------
\* C29 (as stated): whenever should_store_memory accepts a memory_type and
\* content, normalize_memory returns a string for them without raising.
C29_GateAcceptsOnlyRenderable ==
    (Returns("normalize_memory")
        /\ should_store_memory(u_in.memory_type, u_in.content)) =>
        u_out.raised = None

\* ----------------------------------------------------------------------
\* C30 (as stated): after prepare_context every filtered message with a
\* score > 0 whose (role, content-prefix) key is not in the output costs
\* more than max_context_tokens minus the cost of the output, also when the
\* filtered list holds repeated messages.
C30_PackingWastesNoBudget ==
    Compacted =>
        \A i \in DOMAIN c_run.normalized :
            LET m == c_run.normalized[i]
            IN  (/\ _score(m, c_cfg) > 0
                 /\ \A k \in DOMAIN c_run.out : Key(c_run.out[k]) # Key(m)) =>
                    estimate_tokens(m.content)
                        > c_cfg.max_context_tokens - Cost(c_run.out)

====
